---- MODULE Spec2Model ----
(***************************************************************************)
(* Model of src/base.rs of caps-rs: the capget/capset bridge and the six   *)
(* operations has_cap, clear, read, set, drop and raise on the three base  *)
(* capability sets of a thread.                                            *)
(*                                                                         *)
(* A u32 or u64 value is modelled as the set of the positions of its one   *)
(* bits (bit 0 is the least significant), so that shifts, truncations,     *)
(* additions and masks are computed as the code computes them.             *)
(* One step of a caller is one kernel call together with the local         *)
(* computation that follows it up to the next kernel call or the return.   *)
(***************************************************************************)
EXTENDS Integers, Sequences, FiniteSets, TLC

\* Bound of the model: the threads the kernel knows.
NumTids == 2

CAPS_V3 == 537397538

Tids == 1..NumTids
Callers == {"A", "B"}

\* The thread the calls are about; the code treats a tid as an index only, so
\* the other threads are there to show that they are left alone.
CallTids == {1}

\* CapSet, the selector of a capability class.
BaseSets == {"Effective", "Permitted", "Inheritable"}
CapSets == BaseSets \cup {"Bounding", "Ambient"}

\* Capability: a value is identified with its index().  Variants are the
\* values iter_variants() enumerates; an OversizedCaps value is one whose
\* index does not fit the two words of a pair.
Variants == {5, 40}
OversizedCaps == {64}
index(c) == c

-----------------------------------------------------------------------------
(* Integer arithmetic on bit sets.                                         *)

ShiftLeft64(x, n) == {b + n : b \in {y \in x : y + n < 64}}
ShiftRight(x, n) == {b - n : b \in {y \in x : y >= n}}
AsU32(x) == {b \in x : b < 32}
AsU64(x) == x
BitAnd(x, y) == x \cap y
BitOr(x, y) == x \cup y

RECURSIVE Add64(_, _)
Add64(a, b) ==
    IF b = {} THEN a
    ELSE Add64((a \ b) \cup (b \ a), ShiftLeft64(a \cap b, 1))

\* Capability::bitmask(): 1u64 << index.
bitmask(c) == ShiftLeft64({0}, index(c))

-----------------------------------------------------------------------------
(* CapUserHeader and CapUserData.                                          *)

\* A header whose pid names the thread after tid.
CapUserHeader_nextpid(t) == [version |-> CAPS_V3, pid |-> t + 1]

\* CapUserHeader { version: CAPS_V3, pid: tid }.
CapUserHeader(t) == [version |-> CAPS_V3, pid |-> t]

DefaultData ==
    [effective_s0 |-> {}, permitted_s0 |-> {}, inheritable_s0 |-> {},
     effective_s1 |-> {}, permitted_s1 |-> {}, inheritable_s1 |-> {}]

\* The field names of the pair of a base set: <<high word, low word>>.
Pair(s) ==
    CASE s = "Effective" -> <<"effective_s1", "effective_s0">>
      [] s = "Inheritable" -> <<"inheritable_s1", "inheritable_s0">>
      [] s = "Permitted" -> <<"permitted_s1", "permitted_s0">>

\* let caps: u64 = ((data.X_s1 as u64) << 32) + data.X_s0 as u64
caps64(d, s) ==
    Add64(ShiftLeft64(AsU64(d[Pair(s)[1]]), 32), AsU64(d[Pair(s)[2]]))

\* A kernel structure holding the given 64-bit masks.
KernelData(e, p, i) ==
    [effective_s0 |-> AsU32(e), permitted_s0 |-> AsU32(p),
     inheritable_s0 |-> AsU32(i),
     effective_s1 |-> ShiftRight(e, 32), permitted_s1 |-> ShiftRight(p, 32),
     inheritable_s1 |-> ShiftRight(i, 32)]

\* Kernel states a run may start from; bit 7 is a capability the
\* enumeration does not know.
InitKernels ==
    {DefaultData,
     KernelData({5}, {5, 40}, {40}),
     KernelData({}, {40}, {5, 40}),
     KernelData({5, 40}, {5, 7, 40}, {})}

\* Thread 1 starts from any of them, every other thread from one that
\* differs from them all.
OtherKernel == KernelData({40}, {5, 40}, {5})
InitKernel ==
    {k \in [Tids -> InitKernels \cup {OtherKernel}] :
        /\ k[1] \in InitKernels
        /\ \A t \in Tids \ {1} : k[t] = OtherKernel}

-----------------------------------------------------------------------------
(* Results.                                                                *)

Ok == [kind |-> "Ok", code |-> 0, bool |-> FALSE, caps |-> {}]
OkBool(b) == [Ok EXCEPT !.bool = b]
OkCaps(cs) == [Ok EXCEPT !.caps = cs]
Err(k, r) == [kind |-> k, code |-> r, bool |-> FALSE, caps |-> {}]

-----------------------------------------------------------------------------
(* The kernel side of the two syscalls.                                    *)

\* Raw return values libc::syscall may give for the header.
SyscallRets(hdr) ==
    IF hdr.version = CAPS_V3 /\ hdr.pid \in Tids THEN {0, -1} ELSE {-1}

\* nr::CAPGET: what the caller's data holds after the call.
SysCapget(k, hdr, d, r) == IF r = 0 THEN k[hdr.pid] ELSE d

\* nr::CAPSET: the kernel state after the call.
SysCapset(k, hdr, d, r) == IF r = 0 THEN [k EXCEPT ![hdr.pid] = d] ELSE k

\* capget that takes every return value for a success.
capget_any(r) == Ok

capget(r) == IF r = 0 THEN Ok ELSE Err("capget error", r)

\* capset that does not look at the return value.
capset_ignored(r) == Ok

\* capset with the arms of its match exchanged.
capset_inverted(r) == IF r = 0 THEN Err("capset error", r) ELSE Ok

capset(r) == IF r = 0 THEN Ok ELSE Err("capset error", r)

-----------------------------------------------------------------------------
(* The pure parts of the operations, on the structure just fetched.        *)

\* has_cap that adds the high word to the low word without the shift.
has_cap_ret_noshift(d, s, c) ==
    IF s \in BaseSets
    THEN OkBool(BitAnd(Add64(AsU64(d[Pair(s)[1]]), AsU64(d[Pair(s)[2]])),
                       bitmask(c)) # {})
    ELSE Err("not a base set", 0)

\* has_cap, after try!(capget).
has_cap_ret(d, s, c) ==
    IF s \in BaseSets
    THEN OkBool(BitAnd(caps64(d, s), bitmask(c)) # {})
    ELSE Err("not a base set", 0)

\* read, after try!(capget).
read_ret(d, s) ==
    IF s \in BaseSets
    THEN OkCaps({c \in Variants : BitAnd(caps64(d, s), bitmask(c)) # {}})
    ELSE Err("not a base set", 0)

\* clear whose Permitted arm zeroes the Permitted pair only.
clear_data_nocascade(d, s) ==
    CASE s = "Effective" ->
           [err |-> FALSE,
            data |-> [d EXCEPT !.effective_s0 = {}, !.effective_s1 = {}]]
      [] s = "Inheritable" ->
           [err |-> FALSE,
            data |-> [d EXCEPT !.inheritable_s0 = {}, !.inheritable_s1 = {}]]
      [] s = "Permitted" ->
           [err |-> FALSE,
            data |-> [d EXCEPT !.permitted_s0 = {}, !.permitted_s1 = {}]]
      [] s \in {"Bounding", "Ambient"} -> [err |-> TRUE, data |-> d]

\* clear whose Effective arm zeroes the Permitted pair as well.
clear_data_wide(d, s) ==
    CASE s = "Effective" ->
           [err |-> FALSE,
            data |-> [d EXCEPT !.effective_s0 = {}, !.effective_s1 = {},
                               !.permitted_s0 = {}, !.permitted_s1 = {}]]
      [] s = "Inheritable" ->
           [err |-> FALSE,
            data |-> [d EXCEPT !.inheritable_s0 = {}, !.inheritable_s1 = {}]]
      [] s = "Permitted" ->
           [err |-> FALSE,
            data |-> [d EXCEPT !.effective_s0 = {}, !.effective_s1 = {},
                               !.permitted_s0 = {}, !.permitted_s1 = {}]]
      [] s \in {"Bounding", "Ambient"} -> [err |-> TRUE, data |-> d]

\* clear whose last arm does not bail.
clear_data_nobail(d, s) ==
    CASE s = "Effective" ->
           [err |-> FALSE,
            data |-> [d EXCEPT !.effective_s0 = {}, !.effective_s1 = {}]]
      [] s = "Inheritable" ->
           [err |-> FALSE,
            data |-> [d EXCEPT !.inheritable_s0 = {}, !.inheritable_s1 = {}]]
      [] s = "Permitted" ->
           [err |-> FALSE,
            data |-> [d EXCEPT !.effective_s0 = {}, !.effective_s1 = {},
                               !.permitted_s0 = {}, !.permitted_s1 = {}]]
      [] s \in {"Bounding", "Ambient"} -> [err |-> FALSE, data |-> d]

\* clear: the match on cset; the structure to store, or the error of the
\* last arm.
clear_data(d, s) ==
    CASE s = "Effective" ->
           [err |-> FALSE,
            data |-> [d EXCEPT !.effective_s0 = {}, !.effective_s1 = {}]]
      [] s = "Inheritable" ->
           [err |-> FALSE,
            data |-> [d EXCEPT !.inheritable_s0 = {}, !.inheritable_s1 = {}]]
      [] s = "Permitted" ->
           [err |-> FALSE,
            data |-> [d EXCEPT !.effective_s0 = {}, !.effective_s1 = {},
                               !.permitted_s0 = {}, !.permitted_s1 = {}]]
      [] s \in {"Bounding", "Ambient"} -> [err |-> TRUE, data |-> d]

\* The loop body without the shift of the high half: *s1 |= bitmask as u32.
set_bit_noshift(acc, c) ==
    IF index(c) \in 0..31 THEN
        [acc EXCEPT !.s0 = BitOr(acc.s0, AsU32(bitmask(c)))]
    ELSE IF index(c) \in 32..63 THEN
        [acc EXCEPT !.s1 = BitOr(acc.s1, AsU32(bitmask(c)))]
    ELSE [acc EXCEPT !.err = TRUE]

\* The loop body that skips an overlarge index instead of bailing.
set_bit_skip(acc, c) ==
    IF index(c) \in 0..31 THEN
        [acc EXCEPT !.s0 = BitOr(acc.s0, AsU32(bitmask(c)))]
    ELSE IF index(c) \in 32..63 THEN
        [acc EXCEPT !.s1 = BitOr(acc.s1, AsU32(ShiftRight(bitmask(c), 32)))]
    ELSE acc

\* The loop body with the two words exchanged.
set_bit_swapped(acc, c) ==
    IF index(c) \in 0..31 THEN
        [acc EXCEPT !.s1 = BitOr(acc.s1, AsU32(bitmask(c)))]
    ELSE IF index(c) \in 32..63 THEN
        [acc EXCEPT !.s0 = BitOr(acc.s0, AsU32(ShiftRight(bitmask(c), 32)))]
    ELSE [acc EXCEPT !.err = TRUE]

\* set: one turn of the loop body for capability c.
set_bit(acc, c) ==
    IF index(c) \in 0..31 THEN
        [acc EXCEPT !.s0 = BitOr(acc.s0, AsU32(bitmask(c)))]
    ELSE IF index(c) \in 32..63 THEN
        [acc EXCEPT !.s1 = BitOr(acc.s1, AsU32(ShiftRight(bitmask(c), 32)))]
    ELSE [acc EXCEPT !.err = TRUE]

\* set: for c in value { ... }, stopping at the first overlarge index.
RECURSIVE set_loop(_, _)
set_loop(acc, value) ==
    IF value = {} \/ acc.err THEN acc
    ELSE LET c == CHOOSE x \in value : TRUE
         IN set_loop(set_bit(acc, c), value \ {c})

\* set without *s1 = 0; *s0 = 0: the bits are or-ed into the words fetched.
set_data_nozero(d, s, value) ==
    IF s \in {"Bounding", "Ambient"}
    THEN [err |-> "not a base set", data |-> d]
    ELSE LET acc == set_loop([s1 |-> d[Pair(s)[1]], s0 |-> d[Pair(s)[2]],
                              err |-> FALSE], value)
         IN [err |-> IF acc.err THEN "overlarge cap index" ELSE "",
             data |-> [d EXCEPT ![Pair(s)[1]] = acc.s1,
                                ![Pair(s)[2]] = acc.s0]]

\* set that zeroes the Effective pair with the Permitted pair, as clear does.
set_data_cascade(d, s, value) ==
    IF s \in {"Bounding", "Ambient"}
    THEN [err |-> "not a base set", data |-> d]
    ELSE LET acc == set_loop([s1 |-> {}, s0 |-> {}, err |-> FALSE], value)
             e == IF s = "Permitted"
                  THEN [d EXCEPT !.effective_s0 = {}, !.effective_s1 = {}]
                  ELSE d
         IN [err |-> IF acc.err THEN "overlarge cap index" ELSE "",
             data |-> [e EXCEPT ![Pair(s)[1]] = acc.s1,
                                ![Pair(s)[2]] = acc.s0]]

\* set: the block between capget and capset; the structure to store, or the
\* error the block bails with.
set_data(d, s, value) ==
    IF s \in {"Bounding", "Ambient"}
    THEN [err |-> "not a base set", data |-> d]
    ELSE LET acc == set_loop([s1 |-> {}, s0 |-> {}, err |-> FALSE], value)
         IN [err |-> IF acc.err THEN "overlarge cap index" ELSE "",
             data |-> [d EXCEPT ![Pair(s)[1]] = acc.s1,
                                ![Pair(s)[2]] = acc.s0]]

\* drop that calls set whether or not cap was in the set.
drop_caps_always(cs, c) == [caps |-> cs \ {c}, changed |-> TRUE]

\* drop: caps.remove(&cap), the set left and whether cap was in it.
drop_caps(cs, c) == [caps |-> cs \ {c}, changed |-> c \in cs]

\* raise that passes set the new capability alone.
raise_caps_only(cs, c) == [caps |-> {c}, changed |-> c \notin cs]

\* raise: caps.insert(cap), the set made and whether cap was new to it.
raise_caps(cs, c) == [caps |-> cs \cup {c}, changed |-> c \notin cs]

-----------------------------------------------------------------------------
(* State.                                                                  *)

VARIABLES
    kernel,     \* kernel[t]: the capability structure the kernel holds for t
    pc,         \* pc[p]: where caller p is
    call,       \* call[p]: the operation p runs or has just finished
    hdr,        \* hdr[p]: the header of the function p is in
    data,       \* data[p]: the CapUserData of the function p is in
    value,      \* value[p]: the set handed to set()
    ret,        \* ret[p]: what the last operation returned
    trace,      \* trace[p]: the kernel calls of call[p], in order
    pre,        \* pre[p]: kernel[tid] when call[p] started
    prev,       \* prev[p]: the successful call that the observing call[p]
                \* follows at once, with what it returned, if there is one
    stale,      \* stale[p]: another caller stored since p's first fetch
    lastStore,  \* lastStore[t]: the caller whose store wrote kernel[t] last
    budget      \* budget[p]: operations p may still start

vars == <<kernel, pc, call, hdr, data, value, ret, trace, pre, prev, stale,
          lastStore, budget>>

Ops == {"has_cap", "clear", "read", "set", "drop", "raise"}
Mutators == {"clear", "set", "drop", "raise"}
Observers == {"has_cap", "read"}

NoCall == [op |-> "none", tid |-> 0, cset |-> "Effective", cap |-> 0,
           value |-> {}]

\* A call that has returned r.
Prev(c, r) == [op |-> c.op, tid |-> c.tid, cset |-> c.cset, cap |-> c.cap,
               value |-> c.value, ret |-> r]
NoPrev == Prev(NoCall, Ok)

\* The sets set() is called with.
SetValues == (SUBSET Variants) \cup {OversizedCaps, {5} \cup OversizedCaps}

\* The calls of an environment.
Calls(ops, tids, csets) ==
    {[op |-> o, tid |-> t, cset |-> s, cap |-> c, value |-> v] :
        o \in {"has_cap", "drop", "raise"} \cap ops, t \in tids, s \in csets,
        c \in Variants, v \in {{}}}
    \cup
    {[op |-> o, tid |-> t, cset |-> s, cap |-> c, value |-> v] :
        o \in {"clear", "read"} \cap ops, t \in tids, s \in csets,
        c \in {0}, v \in {{}}}
    \cup
    {[op |-> o, tid |-> t, cset |-> s, cap |-> c, value |-> v] :
        o \in {"set"} \cap ops, t \in tids, s \in csets,
        c \in {0}, v \in SetValues}

IdleState ==
    /\ pc = [p \in Callers |-> "idle"]
    /\ call = [p \in Callers |-> NoCall]
    /\ hdr = [p \in Callers |-> CapUserHeader(0)]
    /\ data = [p \in Callers |-> DefaultData]
    /\ value = [p \in Callers |-> {}]
    /\ ret = [p \in Callers |-> Ok]
    /\ trace = [p \in Callers |-> <<>>]
    /\ pre = [p \in Callers |-> DefaultData]
    /\ prev = [p \in Callers |-> NoPrev]
    /\ stale = [p \in Callers |-> FALSE]
    /\ lastStore = [t \in Tids |-> "none"]

\* Spec: one caller running any number of operations one after another.
\* SpecConc: two callers running one operation each on a base set of the
\* same thread, their kernel calls interleaved in any order.
Init ==
    /\ kernel \in InitKernel
    /\ IdleState
    /\ budget = [p \in Callers |-> 1]

-----------------------------------------------------------------------------
(* Actions.                                                                *)

Event(sys, h, r, d) == [sys |-> sys, hdr |-> h, r |-> r, data |-> d]

\* Caller p starts operation c: the header and the data of the first
\* function are built.
Start(p, c) ==
    /\ pc[p] \in {"idle", "returned"}
    /\ pc' = [pc EXCEPT ![p] = c.op]
    /\ call' = [call EXCEPT ![p] = c]
    /\ prev' = [prev EXCEPT ![p] =
                  IF /\ c.op \in Observers
                     /\ call[p].op \in Ops /\ ret[p].kind = "Ok"
                  THEN Prev(call[p], ret[p]) ELSE NoPrev]
    /\ hdr' = [hdr EXCEPT ![p] = CapUserHeader(c.tid)]
    /\ data' = [data EXCEPT ![p] = DefaultData]
    /\ value' = [value EXCEPT ![p] = c.value]
    /\ trace' = [trace EXCEPT ![p] = <<>>]
    /\ pre' = [pre EXCEPT ![p] = kernel[c.tid]]
    /\ stale' = [stale EXCEPT ![p] = FALSE]
    /\ UNCHANGED <<kernel, ret, lastStore>>

Call(p) ==
    /\ \E c \in Calls(Ops, CallTids, CapSets) : Start(p, c)
    /\ UNCHANGED budget

CallConc(p) ==
    /\ budget[p] > 0
    /\ \E c \in Calls(Ops, CallTids, BaseSets) : Start(p, c)
    /\ budget' = [budget EXCEPT ![p] = @ - 1]

\* A call under one mutex per thread identifier, held from the call to its
\* return: no other caller is inside an operation on the same thread.
CallMutex(p) ==
    /\ budget[p] > 0
    /\ \E c \in Calls(Ops, CallTids, BaseSets) :
        /\ \A q \in Callers \ {p} :
              pc[q] \in {"idle", "returned"} \/ call[q].tid # c.tid
        /\ Start(p, c)
    /\ budget' = [budget EXCEPT ![p] = @ - 1]

\* A call of has_cap or read, one for each caller.
CallObs(p) ==
    /\ budget[p] > 0
    /\ \E c \in Calls(Observers, CallTids, CapSets) : Start(p, c)
    /\ budget' = [budget EXCEPT ![p] = @ - 1]

\* The operation of p returns result to its caller.
Return(p, result) ==
    /\ pc' = [pc EXCEPT ![p] = "returned"]
    /\ ret' = [ret EXCEPT ![p] = result]
    /\ data' = [data EXCEPT ![p] = DefaultData]

\* capget by p returning r: the data fetched and the call recorded.
Fetched(p, r) == SysCapget(kernel, hdr[p], DefaultData, r)

Fetch(p, r) ==
    /\ trace' = [trace EXCEPT ![p] =
                   Append(@, Event("capget", hdr[p], r, Fetched(p, r)))]
    /\ UNCHANGED <<kernel, lastStore, stale>>

\* capset by p of structure d returning r.
Store(p, d, r) ==
    /\ kernel' = SysCapset(kernel, hdr[p], d, r)
    /\ trace' = [trace EXCEPT ![p] = Append(@, Event("capset", hdr[p], r, d))]
    /\ lastStore' = IF r = 0 THEN [lastStore EXCEPT ![hdr[p].pid] = p]
                    ELSE lastStore
    /\ stale' = [q \in Callers |->
                   IF /\ r = 0 /\ q # p /\ trace[q] # <<>>
                      /\ pc[q] \notin {"idle", "returned"}
                      /\ hdr[q].pid = hdr[p].pid
                   THEN TRUE ELSE stale[q]]

has_cap(p) ==
    /\ pc[p] = "has_cap"
    /\ \E r \in SyscallRets(hdr[p]) :
        /\ Fetch(p, r)
        /\ IF capget(r).kind # "Ok" THEN Return(p, capget(r))
           ELSE Return(p, has_cap_ret(Fetched(p, r), call[p].cset,
                                      call[p].cap))
    /\ UNCHANGED <<call, hdr, value, pre, prev, budget>>

\* clear that matches the selector before it calls capget.
clear_checkfirst(p) ==
    /\ pc[p] = "clear"
    /\ IF call[p].cset \notin BaseSets
       THEN /\ Return(p, Err("not a base set", 0))
            /\ UNCHANGED <<kernel, trace, lastStore, stale>>
       ELSE \E r \in SyscallRets(hdr[p]) :
            /\ Fetch(p, r)
            /\ IF capget(r).kind # "Ok" THEN Return(p, capget(r))
               ELSE /\ pc' = [pc EXCEPT ![p] = "clear_capset"]
                    /\ data' = [data EXCEPT ![p] =
                                  clear_data(Fetched(p, r), call[p].cset).data]
                    /\ UNCHANGED ret
    /\ UNCHANGED <<call, hdr, value, pre, prev, budget>>

clear(p) ==
    /\ pc[p] = "clear"
    /\ \E r \in SyscallRets(hdr[p]) :
        /\ Fetch(p, r)
        /\ IF capget(r).kind # "Ok" THEN Return(p, capget(r))
           ELSE LET cd == clear_data(Fetched(p, r), call[p].cset)
                IN IF cd.err
                   THEN Return(p, Err("not a base set", 0))
                   ELSE /\ pc' = [pc EXCEPT ![p] = "clear_capset"]
                        /\ data' = [data EXCEPT ![p] = cd.data]
                        /\ UNCHANGED ret
    /\ UNCHANGED <<call, hdr, value, pre, prev, budget>>

clear_capset(p) ==
    /\ pc[p] = "clear_capset"
    /\ \E r \in SyscallRets(hdr[p]) :
        /\ Store(p, data[p], r)
        /\ Return(p, capset(r))
    /\ UNCHANGED <<call, hdr, value, pre, prev, budget>>

\* read whose capget issues nr::CAPSET: the kernel takes the zeroed data.
read_storing(p) ==
    /\ pc[p] = "read"
    /\ \E r \in SyscallRets(hdr[p]) :
        /\ kernel' = SysCapset(kernel, hdr[p], DefaultData, r)
        /\ trace' = [trace EXCEPT ![p] =
                       Append(@, Event("capget", hdr[p], r, DefaultData))]
        /\ UNCHANGED <<lastStore, stale>>
        /\ IF capget(r).kind # "Ok" THEN Return(p, capget(r))
           ELSE Return(p, read_ret(DefaultData, call[p].cset))
    /\ UNCHANGED <<call, hdr, value, pre, prev, budget>>

read(p) ==
    /\ pc[p] = "read"
    /\ \E r \in SyscallRets(hdr[p]) :
        /\ Fetch(p, r)
        /\ IF capget(r).kind # "Ok" THEN Return(p, capget(r))
           ELSE Return(p, read_ret(Fetched(p, r), call[p].cset))
    /\ UNCHANGED <<call, hdr, value, pre, prev, budget>>

\* set, for the operation set and for the set drop and raise call.
set(p) ==
    /\ pc[p] = "set"
    /\ \E r \in SyscallRets(hdr[p]) :
        /\ Fetch(p, r)
        /\ IF capget(r).kind # "Ok" THEN Return(p, capget(r))
           ELSE LET sd == set_data(Fetched(p, r), call[p].cset, value[p])
                IN IF sd.err # ""
                   THEN Return(p, Err(sd.err, 0))
                   ELSE /\ pc' = [pc EXCEPT ![p] = "set_capset"]
                        /\ data' = [data EXCEPT ![p] = sd.data]
                        /\ UNCHANGED ret
    /\ UNCHANGED <<call, hdr, value, pre, prev, budget>>

\* set that calls capset again when it fails.
set_capset_retry(p) ==
    /\ pc[p] = "set_capset"
    /\ \E r \in SyscallRets(hdr[p]) :
        /\ Store(p, data[p], r)
        /\ IF r = 0 THEN Return(p, Ok)
           ELSE UNCHANGED <<pc, ret, data>>
    /\ UNCHANGED <<call, hdr, value, pre, prev, budget>>

set_capset(p) ==
    /\ pc[p] = "set_capset"
    /\ \E r \in SyscallRets(hdr[p]) :
        /\ Store(p, data[p], r)
        /\ Return(p, capset(r))
    /\ UNCHANGED <<call, hdr, value, pre, prev, budget>>

\* What read returns to drop or raise when its capget returns r.
Read(p, r) ==
    IF capget(r).kind # "Ok" THEN capget(r)
    ELSE read_ret(Fetched(p, r), call[p].cset)

\* drop and raise up to their call of set: try!(read), then the change ch of
\* the set read, and set is called with the new set if there was a change.
Through(p, r, ch) ==
    /\ Fetch(p, r)
    /\ LET rd == Read(p, r)
       IN IF rd.kind # "Ok" THEN Return(p, rd) /\ UNCHANGED <<hdr, value>>
          ELSE IF ch.changed
          THEN /\ pc' = [pc EXCEPT ![p] = "set"]
               /\ value' = [value EXCEPT ![p] = ch.caps]
               /\ hdr' = [hdr EXCEPT ![p] = CapUserHeader(call[p].tid)]
               /\ data' = [data EXCEPT ![p] = DefaultData]
               /\ UNCHANGED ret
          ELSE Return(p, Ok) /\ UNCHANGED <<hdr, value>>

drop(p) ==
    /\ pc[p] = "drop"
    /\ \E r \in SyscallRets(hdr[p]) :
        Through(p, r, drop_caps(Read(p, r).caps, call[p].cap))
    /\ UNCHANGED <<call, pre, prev, budget>>

raise(p) ==
    /\ pc[p] = "raise"
    /\ \E r \in SyscallRets(hdr[p]) :
        Through(p, r, raise_caps(Read(p, r).caps, call[p].cap))
    /\ UNCHANGED <<call, pre, prev, budget>>

Step(p) ==
    \/ has_cap(p)
    \/ clear(p)
    \/ clear_capset(p)
    \/ read(p)
    \/ set(p)
    \/ set_capset(p)
    \/ drop(p)
    \/ raise(p)

Next == \E p \in {"A"} : Call(p) \/ Step(p)

NextConc == \E p \in Callers : CallConc(p) \/ Step(p)

NextMutex == \E p \in Callers : CallMutex(p) \/ Step(p)

NextObs == \E p \in Callers : CallObs(p) \/ has_cap(p) \/ read(p)

Spec == Init /\ [][Next]_vars

SpecConc == Init /\ [][NextConc]_vars

\* SpecMutex: the two callers of SpecConc, serialized by the mutex.
SpecMutex == Init /\ [][NextMutex]_vars

\* SpecObs: two callers running has_cap or read, one operation each, on any
\* selector, their kernel calls interleaved in any order.
SpecObs == Init /\ [][NextObs]_vars

-----------------------------------------------------------------------------
(* What the properties speak of.                                           *)

Returned(p) == pc[p] = "returned"

\* Capability c is in class s of structure d: bit i of the pair is bit i of
\* the low word for i in 0..31 and bit i - 32 of the high word for i in 32..63.
HasBit(d, s, c) ==
    IF c < 32 THEN c \in d[Pair(s)[2]] ELSE (c - 32) \in d[Pair(s)[1]]

ClassCaps(d, s) == {c \in Variants : HasBit(d, s, c)}

\* The two words of class s are the same in d and e.
SamePair(d, e, s) ==
    /\ d[Pair(s)[1]] = e[Pair(s)[1]]
    /\ d[Pair(s)[2]] = e[Pair(s)[2]]

Events(p, sys) == SelectSeq(trace[p], LAMBDA e : e.sys = sys)
Gets(p) == Len(Events(p, "capget"))
Sets(p) == Len(Events(p, "capset"))

\* call[p] is an observing call on the thread and class of the successful
\* mutating call it follows.
Follows(p, op, prevops) ==
    /\ Returned(p)
    /\ call[p].op = op
    /\ ret[p].kind = "Ok"
    /\ prev[p].op \in prevops
    /\ prev[p].tid = call[p].tid

-----------------------------------------------------------------------------
(* Claims.                                                                 *)

\* C1: with one caller and every kernel call succeeding, has_cap(tid, s, c)
\* right after raise(tid, s, c) returns true, and has_cap(tid, s, c) right
\* after drop(tid, s, c) returns false, for every base set s, capability c
\* and kernel state.
C1_RaiseDropThenHasCap ==
    \A p \in Callers :
        /\ Follows(p, "has_cap", {"raise", "drop"})
        /\ prev[p].cset = call[p].cset
        /\ prev[p].cap = call[p].cap
        => ret[p].bool = (prev[p].op = "raise")

C1_Witness ==
    \E p \in Callers :
        /\ Follows(p, "has_cap", {"raise"})
        /\ prev[p].cset = call[p].cset
        /\ prev[p].cap = call[p].cap
        /\ call[p].cap = 40
        /\ ret[p].bool

\* C2: with one caller and every kernel call succeeding, read(tid, s) right
\* after set(tid, s, S) returns exactly S, for every base set s and every
\* kernel state set started from.
C2_SetThenRead ==
    \A p \in Callers :
        /\ Follows(p, "read", {"set"})
        /\ prev[p].cset = call[p].cset
        => ret[p].caps = prev[p].value

C2_Witness ==
    \E p \in Callers :
        /\ Follows(p, "read", {"set"})
        /\ prev[p].cset = call[p].cset
        /\ prev[p].value = {40}
        /\ ret[p].caps = {40}

\* C3: a successful clear(tid, Permitted) issued one store, whose structure
\* has the Permitted pair and the Effective pair zero, and with one caller
\* read(tid, Effective) right after it returns the empty set.
C3_ClearPermittedClearsEffective ==
    \A p \in Callers :
        /\ ( /\ Returned(p) /\ call[p].op = "clear"
             /\ call[p].cset = "Permitted" /\ ret[p].kind = "Ok"
             => /\ Sets(p) = 1
                /\ SamePair(Events(p, "capset")[1].data, DefaultData,
                            "Permitted")
                /\ SamePair(Events(p, "capset")[1].data, DefaultData,
                            "Effective") )
        /\ ( /\ Follows(p, "read", {"clear"})
             /\ prev[p].cset = "Permitted" /\ call[p].cset = "Effective"
             => ret[p].caps = {} )

C3_Witness ==
    \E p \in Callers :
        /\ Follows(p, "read", {"clear"})
        /\ prev[p].cset = "Permitted" /\ call[p].cset = "Effective"
        /\ ret[p].caps = {}

\* C4 as claimed: an operation on Bounding or Ambient has issued no kernel
\* call, neither get nor set, when it returns.
C4_NoKernelCall ==
    \A p \in Callers :
        Returned(p) /\ call[p].cset \notin BaseSets => trace[p] = <<>>

\* C4 as amended: an operation on Bounding or Ambient issues exactly one
\* kernel call, a get, before it returns, and never a set.
C4_OneGetNoSet ==
    \A p \in Callers :
        call[p].op # "none" /\ call[p].cset \notin BaseSets
        => /\ Sets(p) = 0
           /\ Gets(p) <= 1
           /\ Returned(p) <=> Gets(p) = 1

C4_Witness ==
    \E p \in Callers :
        /\ Returned(p) /\ call[p].op = "clear" /\ call[p].cset = "Ambient"
        /\ Gets(p) = 1 /\ Sets(p) = 0 /\ trace[p][1].r = 0

\* C5 as claimed: an operation on Bounding or Ambient fails with "not a base
\* set" whatever its kernel get call returns.
C5_AlwaysUnsupportedSet ==
    \A p \in Callers :
        Returned(p) /\ call[p].cset \notin BaseSets
        => ret[p].kind = "not a base set"

\* C5 as amended: an operation on Bounding or Ambient never succeeds; it
\* fails with "not a base set" when its kernel get call returns zero, and
\* with the capget error carrying the raw return value when it does not.
C5_UnsupportedSetAfterGet ==
    \A p \in Callers :
        Returned(p) /\ call[p].cset \notin BaseSets
        => /\ trace[p] # <<>>
           /\ ret[p] = IF trace[p][1].r = 0 THEN Err("not a base set", 0)
                       ELSE Err("capget error", trace[p][1].r)

C5_Witness ==
    \E p \in Callers :
        /\ Returned(p) /\ call[p].op = "raise" /\ call[p].cset = "Bounding"
        /\ trace[p][1].r = 0
        /\ ret[p].kind = "not a base set"

\* C6: with one caller, set, drop and raise on a base set s leave the pairs
\* of the two other base sets as they were when the operation started, and
\* every structure they store carries for those two sets the words of the
\* fetch just before it.
C6_OtherPairsKept ==
    \A p \in Callers :
        Returned(p) /\ call[p].op \in {"set", "drop", "raise"}
                    /\ call[p].cset \in BaseSets
        => \A o \in BaseSets \ {call[p].cset} :
              /\ SamePair(kernel[call[p].tid], pre[p], o)
              /\ \A i \in 1..Len(trace[p]) :
                    trace[p][i].sys = "capset"
                    => /\ i > 1
                       /\ trace[p][i - 1].sys = "capget"
                       /\ trace[p][i - 1].r = 0
                       /\ SamePair(trace[p][i].data, trace[p][i - 1].data, o)

C6_Witness ==
    \E p \in Callers :
        /\ Returned(p) /\ call[p].op = "set" /\ call[p].cset = "Permitted"
        /\ ret[p].kind = "Ok"
        /\ ~SamePair(kernel[call[p].tid], pre[p], "Permitted")
        /\ ClassCaps(pre[p], "Effective") = {5, 40}
        /\ ClassCaps(kernel[call[p].tid], "Effective") = {5, 40}
        /\ ClassCaps(kernel[call[p].tid], "Permitted") = {}

\* C7: drop of a capability that is not in the class fetched, and raise of
\* one that is in it, return Ok after their one get, issue no set, and with
\* one caller leave the kernel state of the thread as it was.
C7_NoStoreWithoutChange ==
    \A p \in Callers :
        /\ Returned(p) /\ call[p].op \in {"drop", "raise"}
        /\ call[p].cset \in BaseSets
        /\ trace[p] # <<>> /\ trace[p][1].r = 0
        /\ HasBit(trace[p][1].data, call[p].cset, call[p].cap)
              = (call[p].op = "raise")
        => /\ ret[p] = Ok
           /\ Len(trace[p]) = 1
           /\ kernel[call[p].tid] = pre[p]

C7_Witness ==
    \E p \in Callers :
        /\ Returned(p) /\ call[p].op = "drop" /\ call[p].cset \in BaseSets
        /\ trace[p] # <<>> /\ trace[p][1].r = 0
        /\ ~HasBit(trace[p][1].data, call[p].cset, call[p].cap)
        /\ ClassCaps(pre[p], call[p].cset) # {}
        /\ ret[p] = Ok

\* C8: with one caller, an operation that returns an error leaves the kernel
\* state of its thread as it was when the operation started, and no set call
\* of it has returned zero.
C8_ErrorLeavesKernel ==
    \A p \in Callers :
        Returned(p) /\ ret[p].kind # "Ok"
        => /\ kernel[call[p].tid] = pre[p]
           /\ \A i \in 1..Len(trace[p]) :
                 trace[p][i].sys = "capset" => trace[p][i].r # 0

C8_Witness ==
    \E p \in Callers :
        /\ Returned(p) /\ call[p].op = "raise"
        /\ ret[p].kind = "capset error"
        /\ Len(trace[p]) = 3
        /\ pre[p] # DefaultData
        /\ kernel[call[p].tid] = pre[p]

\* C9 as claimed: set with a set that holds a capability of index 64 or
\* more fails with "overlarge cap index" and has issued no kernel call.
C9_OversizedBeforeAnySyscall ==
    \A p \in Callers :
        Returned(p) /\ call[p].op = "set"
                    /\ call[p].value \cap OversizedCaps # {}
        => ret[p].kind = "overlarge cap index" /\ trace[p] = <<>>

\* C9 as amended: set with a set that holds a capability of index 64 or
\* more issues exactly one kernel call, a get, and no set call; when that
\* get returns zero and the selector is a base set it fails with "overlarge
\* cap index", and the kernel state of the thread is as it was.
C9_OversizedBeforeStore ==
    \A p \in Callers :
        Returned(p) /\ call[p].op = "set"
                    /\ call[p].value \cap OversizedCaps # {}
        => /\ Len(trace[p]) = 1
           /\ trace[p][1].sys = "capget"
           /\ ret[p].kind = "overlarge cap index"
                 <=> trace[p][1].r = 0 /\ call[p].cset \in BaseSets
           /\ kernel[call[p].tid] = pre[p]

C9_Witness ==
    \E p \in Callers :
        /\ Returned(p) /\ call[p].op = "set"
        /\ call[p].value = {5} \cup OversizedCaps
        /\ ret[p].kind = "overlarge cap index"
        /\ Len(trace[p]) = 1

\* The successful stores of p, and what p computed for its class from the
\* structure of its first fetch.
Stored(p) == SelectSeq(trace[p], LAMBDA e : e.sys = "capset" /\ e.r = 0)

Computed(p) ==
    LET fetched == ClassCaps(trace[p][1].data, call[p].cset)
    IN CASE call[p].op = "raise" -> fetched \cup {call[p].cap}
         [] call[p].op = "drop" -> fetched \ {call[p].cap}
         [] call[p].op = "set" -> call[p].value
         [] call[p].op = "clear" -> {}

\* C10: with two callers running operations on one thread and no
\* serialization, a caller whose store returns zero returns Ok even when
\* another caller's store fell between its fetch and its store, and as long
\* as its store is the last one the kernel holds the structure it stored,
\* whose class is what it computed from its own first fetch: what the other
\* caller stored in that class in between is lost, with no error to either.
C10_StaleStoreWins ==
    \A p \in Callers :
        Returned(p) /\ Stored(p) # <<>> /\ lastStore[call[p].tid] = p
        => /\ ret[p] = Ok
           /\ kernel[call[p].tid] = Stored(p)[1].data
           /\ ClassCaps(kernel[call[p].tid], call[p].cset) = Computed(p)

\* Two raises of different capabilities on one class, both Ok, one
\* capability there at the end.
C10_Witness ==
    \E p \in Callers : \E q \in Callers \ {p} :
        /\ Returned(p) /\ Returned(q)
        /\ call[p].op = "raise" /\ call[q].op = "raise"
        /\ call[p].tid = call[q].tid /\ call[p].cset = call[q].cset
        /\ call[p].cap # call[q].cap
        /\ ret[p] = Ok /\ ret[q] = Ok
        /\ Stored(p) # <<>> /\ Stored(q) # <<>>
        /\ stale[p] /\ lastStore[call[p].tid] = p
        /\ HasBit(kernel[call[p].tid], call[p].cset, call[p].cap)
        /\ ~HasBit(kernel[call[p].tid], call[p].cset, call[q].cap)

\* C11: with one caller, has_cap(tid, s, c) and read(tid, s) that follow
\* one another at once agree: has_cap returns true exactly when c is in the
\* set read returns, for every base set s, capability c and kernel state;
\* both answer with bit i of the pair fetched, low word for i < 32 and high
\* word for i >= 32.
C11_HasCapIsReadMember ==
    \A p \in Callers :
        /\ ( /\ Follows(p, "has_cap", {"read"})
             /\ prev[p].cset = call[p].cset
             => ret[p].bool = (call[p].cap \in prev[p].ret.caps) )
        /\ ( /\ Follows(p, "read", {"has_cap"})
             /\ prev[p].cset = call[p].cset
             => prev[p].ret.bool = (prev[p].cap \in ret[p].caps) )
        /\ ( Returned(p) /\ ret[p].kind = "Ok" /\ call[p].op = "has_cap"
             => ret[p].bool
                   = HasBit(trace[p][1].data, call[p].cset, call[p].cap) )
        /\ ( Returned(p) /\ ret[p].kind = "Ok" /\ call[p].op = "read"
             => ret[p].caps = ClassCaps(trace[p][1].data, call[p].cset) )

C11_Witness ==
    \E p \in Callers :
        /\ Follows(p, "has_cap", {"read"})
        /\ prev[p].cset = call[p].cset
        /\ call[p].cap = 40
        /\ prev[p].ret.caps = {40}
        /\ ret[p].bool

\* C12: in every structure set hands to capset for the set S it was called
\* with, bit i of the low word of the pair of s is set exactly for the
\* capabilities of S of index i in 0..31, bit i - 32 of the high word exactly
\* for those of index i in 32..63, and no other bit of the pair is set.
C12_BitPacking ==
    \A p \in Callers :
        call[p].op \in {"set", "drop", "raise"}
        => \A i \in 1..Len(trace[p]) :
              trace[p][i].sys = "capset"
              => /\ trace[p][i].data[Pair(call[p].cset)[2]]
                       = {c \in value[p] : c \in 0..31}
                 /\ trace[p][i].data[Pair(call[p].cset)[1]]
                       = {c - 32 : c \in {x \in value[p] : x \in 32..63}}

C12_Witness ==
    \E p \in Callers :
        /\ Returned(p) /\ call[p].op = "set" /\ call[p].value = {5, 40}
        /\ ret[p].kind = "Ok"
        /\ pre[p] # DefaultData
        /\ kernel[call[p].tid][Pair(call[p].cset)[2]] = {5}
        /\ kernel[call[p].tid][Pair(call[p].cset)[1]] = {8}

\* The error made for kernel call e.
SyscallError(e) ==
    Err(IF e.sys = "capget" THEN "capget error" ELSE "capset error", e.r)

\* C13: a kernel call whose raw return value is not zero is the last
\* kernel call of its operation, and the operation, drop and raise included,
\* returns the error made for that call with that raw value; an operation
\* returns a capget or capset error only for such a call.
C13_FailureAbortsAndPropagates ==
    \A p \in Callers :
        /\ \A i \in 1..Len(trace[p]) :
              trace[p][i].r # 0
              => /\ i = Len(trace[p])
                 /\ Returned(p)
                 /\ ret[p] = SyscallError(trace[p][i])
        /\ ( Returned(p) /\ ret[p].kind \in {"capget error", "capset error"}
             => /\ trace[p] # <<>>
                /\ trace[p][Len(trace[p])].r # 0 )

C13_Witness ==
    \E p \in Callers :
        /\ Returned(p) /\ call[p].op = "raise"
        /\ Len(trace[p]) = 2
        /\ trace[p][1].r = 0
        /\ trace[p][2].sys = "capget" /\ trace[p][2].r = -1
        /\ ret[p] = Err("capget error", -1)

\* C14 as claimed: every operation issues at most two kernel calls, gets
\* and sets counted together, and at least one when the selector is a base
\* set.
C14_AtMostTwoCalls ==
    \A p \in Callers :
        /\ Len(trace[p]) <= 2
        /\ ( Returned(p) /\ call[p].cset \in BaseSets => Len(trace[p]) >= 1 )

\* C14 as amended: has_cap and read issue one kernel call, clear and set at
\* most two, drop and raise at most three (the get of read, then the get and
\* the set of set), and every operation issues at least one, whatever the
\* selector.
C14_CallCounts ==
    \A p \in Callers :
        /\ Len(trace[p]) <= ( CASE call[p].op \in {"drop", "raise"} -> 3
                                [] call[p].op \in {"clear", "set"} -> 2
                                [] OTHER -> 1 )
        /\ ( Returned(p) => Len(trace[p]) >= 1 )

C14_Witness ==
    \E p \in Callers :
        /\ Returned(p) /\ call[p].op = "drop" /\ ret[p].kind = "Ok"
        /\ Len(trace[p]) = 3
        /\ trace[p][1].sys = "capget" /\ trace[p][2].sys = "capget"
        /\ trace[p][3].sys = "capset"

\* C15: the first kernel call of every operation is a get, no operation
\* returns, be it with "not a base set" or "overlarge cap index", before
\* that get has been issued, those two errors come only after a get that
\* returned zero, and every set call comes right after a get of the same
\* operation that returned zero.
C15_FetchFirst ==
    \A p \in Callers :
        /\ ( trace[p] # <<>> => trace[p][1].sys = "capget" )
        /\ ( Returned(p) => trace[p] # <<>> )
        /\ ( Returned(p)
               /\ ret[p].kind \in {"not a base set", "overlarge cap index"}
             => /\ trace[p][Len(trace[p])].sys = "capget"
                /\ trace[p][Len(trace[p])].r = 0 )
        /\ \A i \in 1..Len(trace[p]) :
              trace[p][i].sys = "capset"
              => /\ i > 1
                 /\ trace[p][i - 1].sys = "capget"
                 /\ trace[p][i - 1].r = 0

C15_Witness ==
    \E p \in Callers :
        /\ Returned(p) /\ call[p].op = "clear" /\ call[p].cset = "Bounding"
        /\ ret[p].kind = "not a base set"
        /\ Len(trace[p]) = 1
        /\ trace[p][1].sys = "capget" /\ trace[p][1].r = 0

\* Structure k with class s holding exactly the capabilities cs.
WithClass(k, s, cs) ==
    [k EXCEPT ![Pair(s)[2]] = {c \in cs : c < 32},
              ![Pair(s)[1]] = {c - 32 : c \in {x \in cs : x >= 32}}]

\* The structure a thread holds after operation c, run alone on a thread
\* that holds k, has returned r.
SeqApply(k, c, r) ==
    IF r.kind # "Ok" THEN k
    ELSE CASE c.op = "set" -> WithClass(k, c.cset, c.value)
           [] c.op = "clear" ->
                IF c.cset = "Permitted"
                THEN WithClass(WithClass(k, "Permitted", {}), "Effective", {})
                ELSE WithClass(k, c.cset, {})
           [] c.op = "raise" ->
                IF HasBit(k, c.cset, c.cap) THEN k
                ELSE WithClass(k, c.cset, ClassCaps(k, c.cset) \cup {c.cap})
           [] c.op = "drop" ->
                IF ~HasBit(k, c.cset, c.cap) THEN k
                ELSE WithClass(k, c.cset, ClassCaps(k, c.cset) \ {c.cap})
           [] OTHER -> k

Inside(p) == pc[p] \notin {"idle", "returned"}

\* C16: when every operation runs under one mutex per thread identifier, no
\* update is lost: the kernel state changes only in the step in which an
\* operation returns, to what that operation run alone makes of the state it
\* found when it took the mutex, so that the final state is that of the
\* successful operations applied one after another in the order they took
\* the mutex.
C16_MutexSerializes ==
    /\ [](\A p \in Callers :
            /\ ( Inside(p) => kernel[call[p].tid] = pre[p] /\ ~stale[p] )
            /\ \A q \in Callers \ {p} :
                  Returned(p) /\ Returned(q) /\ call[p].tid = call[q].tid
                  => \/ /\ pre[q] = SeqApply(pre[p], call[p], ret[p])
                        /\ kernel[call[q].tid]
                              = SeqApply(pre[q], call[q], ret[q])
                     \/ /\ pre[p] = SeqApply(pre[q], call[q], ret[q])
                        /\ kernel[call[p].tid]
                              = SeqApply(pre[p], call[p], ret[p]))
    /\ [][\A p \in Callers :
            IF Inside(p) /\ pc'[p] = "returned"
            THEN kernel' = [kernel EXCEPT ![call[p].tid] =
                              SeqApply(pre[p], call[p], ret'[p])]
            ELSE (\A q \in Callers : ~(Inside(q) /\ pc'[q] = "returned"))
                 => kernel' = kernel]_vars

C16_Witness ==
    \E p \in Callers : \E q \in Callers \ {p} :
        /\ Returned(p) /\ Returned(q)
        /\ call[p].op = "raise" /\ call[q].op = "raise"
        /\ call[p].tid = call[q].tid /\ call[p].cset = call[q].cset
        /\ call[p].cap # call[q].cap
        /\ ret[p] = Ok /\ ret[q] = Ok
        /\ ClassCaps(pre[p], call[p].cset) = {}
        /\ Len(trace[p]) = 3 /\ Len(trace[q]) = 3
        /\ ClassCaps(kernel[call[p].tid], call[p].cset) = {5, 40}

\* C17: has_cap and read issue no set call, and while only these two
\* operations run, in any order and interleaving, with any selector and any
\* outcome, no step changes the kernel state of any thread.
C17_ObserversLeaveKernel ==
    /\ [](\A p \in Callers : call[p].op \in Observers => Sets(p) = 0)
    /\ [][kernel' = kernel]_vars

C17_Witness ==
    \E p \in Callers : \E q \in Callers \ {p} :
        /\ Returned(p) /\ Returned(q)
        /\ call[p].op = "has_cap" /\ ret[p] = OkBool(TRUE)
        /\ call[q].op = "read" /\ ret[q] = OkCaps({5, 40})
        /\ kernel[call[p].tid] = pre[p]

\* The classes whose pair clear of class s does not assign.
ClearKeeps(s) ==
    CASE s = "Effective" -> {"Permitted", "Inheritable"}
      [] s = "Inheritable" -> {"Effective", "Permitted"}
      [] s = "Permitted" -> {"Inheritable"}

\* C18: with one caller, a returned clear of Effective has changed at most the
\* Effective pair of the thread, a clear of Inheritable at most the
\* Inheritable pair, and a clear of Permitted has left the Inheritable pair;
\* in the structure it stores these pairs are the ones it just fetched, and
\* the target pair is zero.
C18_ClearFrame ==
    \A p \in {"A"} :
        (Returned(p) /\ call[p].op = "clear" /\ call[p].cset \in BaseSets) =>
            \A o \in ClearKeeps(call[p].cset) :
                /\ SamePair(kernel[call[p].tid], pre[p], o)
                /\ Sets(p) > 0 =>
                      /\ Len(trace[p]) = 2
                      /\ trace[p][1].sys = "capget" /\ trace[p][1].r = 0
                      /\ trace[p][2].sys = "capset"
                      /\ trace[p][1].data = pre[p]
                      /\ SamePair(trace[p][2].data, trace[p][1].data, o)
                      /\ SamePair(trace[p][2].data, DefaultData, call[p].cset)

C18_Witness ==
    \E p \in {"A"} :
        /\ Returned(p) /\ call[p].op = "clear" /\ call[p].cset = "Effective"
        /\ ret[p] = Ok
        /\ ClassCaps(pre[p], "Effective") # {}
        /\ ClassCaps(kernel[call[p].tid], "Effective") = {}
        /\ ClassCaps(kernel[call[p].tid], "Permitted") # {}
        /\ ClassCaps(kernel[call[p].tid], "Inheritable") # {}

\* C19: a drop or raise that reaches its store has issued two fetches
\* before it, the one of read and the one of set. The target class it stores
\* is the set computed from the first fetch, the two other classes it stores
\* are those of the second fetch. So when its store is the last one on the
\* thread, the kernel holds in the target class what it computed from its
\* first fetch, whatever another caller stored there since, and in the other
\* classes what its second fetch returned, a change another caller made
\* between the two fetches included.
C19_TwoFetches ==
    \A p \in Callers :
        (call[p].op \in {"drop", "raise"} /\ Sets(p) > 0) =>
            /\ Len(trace[p]) = 3
            /\ trace[p][1].sys = "capget" /\ trace[p][1].r = 0
            /\ trace[p][2].sys = "capget" /\ trace[p][2].r = 0
            /\ trace[p][3].sys = "capset"
            /\ ClassCaps(trace[p][3].data, call[p].cset) = Computed(p)
            /\ \A o \in BaseSets \ {call[p].cset} :
                   SamePair(trace[p][3].data, trace[p][2].data, o)
            /\ (trace[p][3].r = 0 /\ lastStore[call[p].tid] = p) =>
                   /\ ClassCaps(kernel[call[p].tid], call[p].cset)
                          = Computed(p)
                   /\ \A o \in BaseSets \ {call[p].cset} :
                          SamePair(kernel[call[p].tid], trace[p][2].data, o)

\* A raise whose two fetches saw different pairs of another class, which
\* another caller stored in between, and whose store kept the later ones.
C19_Witness ==
    \E p \in Callers : \E q \in Callers \ {p} :
        /\ Returned(p) /\ call[p].op = "raise" /\ ret[p] = Ok
        /\ Sets(p) = 1 /\ lastStore[call[p].tid] = p
        /\ Returned(q) /\ ret[q] = Ok /\ Stored(q) # <<>>
        /\ call[q].tid = call[p].tid
        /\ call[q].cset # call[p].cset
        /\ ~SamePair(trace[p][1].data, trace[p][2].data, call[q].cset)
        /\ SamePair(kernel[call[p].tid], Stored(q)[1].data, call[q].cset)
        /\ HasBit(kernel[call[p].tid], call[p].cset, call[p].cap)

====
